---- MODULE Spec2Model ----
(***************************************************************************)
(* The Menu page of the restaurant ordering client                         *)
(* (src/Frontend/src/pages/Menu.jsx) together with the application's route *)
(* table (src/unnamed/part_000).                                           *)
(*                                                                         *)
(* The state is the state of one mounted Menu component (its useState      *)
(* hooks), the browser's token storage, the router location, and the       *)
(* placeOrder invocations that are suspended at an await.  Every event     *)
(* handler is one action.  A handler is taken as an operation: its inputs  *)
(* are drawn from small sets that contain what the rendered buttons can    *)
(* pass (the cart panel hides the Place Order button while the cart is     *)
(* empty, line 365, and offers quantity-1 / quantity+1 only; the model     *)
(* does not rely on either, so the handlers' own checks are exercised).    *)
(* The category filter (selectedCategory) only narrows which Add buttons   *)
(* are shown and is left out.  Prices are integers (cents).                *)
(*                                                                         *)
(* toast, unhandled and event are outputs of the step just taken: the      *)
(* notification the handler raised, the rejection it left unhandled, and   *)
(* which handler ran with which input.                                     *)
(***************************************************************************)
EXTENDS Integers, Sequences, FiniteSets

\* ------------------------------------------------------------------ bounds
\* Largest quantity a cart line is driven to.
MaxQty == 2
\* Largest number of user events handled from the start of a placeOrder
\* invocation until no invocation is suspended and no "Remove unavailable
\* items" button is on screen.
MaxInFlightEvents == 2

\* ------------------------------------------------------- the remote service
\* What GET /menu can return: MenuItem records.
Catalogue ==
  << [_id |-> "m1", name |-> "Burger", price |-> 5, category |-> "main",
      ingredients |-> <<"onion">>],
     [_id |-> "m2", name |-> "Fries", price |-> 3, category |-> "side",
      ingredients |-> <<>>] >>

ServerMenus == {Catalogue}

ItemIds == {Catalogue[i]._id : i \in 1..Len(Catalogue)}

ItemNames == {Catalogue[i].name : i \in 1..Len(Catalogue)}

\* Texts the user types into the special-instructions box.
SpecialRequests == {"", "no salt"}

OrderIds == {"o1"}

\* ------------------------------------------------------------ sequences
Range(s) == {s[i] : i \in 1..Len(s)}

\* Array.prototype.findIndex on the _id, 1-based; 0 when nothing matches
\* (JavaScript's -1).
RECURSIVE FindIndexFrom(_, _, _)
FindIndexFrom(s, id, i) ==
  IF i > Len(s) THEN 0
  ELSE IF s[i]._id = id THEN i
       ELSE FindIndexFrom(s, id, i + 1)

FindIndex(s, id) == FindIndexFrom(s, id, 1)

\* cart.filter((item) => item._id !== itemId)
RECURSIVE FilterOutId(_, _)
FilterOutId(s, id) ==
  IF s = <<>> THEN <<>>
  ELSE IF Head(s)._id # id THEN <<Head(s)>> \o FilterOutId(Tail(s), id)
       ELSE FilterOutId(Tail(s), id)

\* undefined, where a text is expected and where a part of a text is.
Undefined == << <<"undefined">> >>

UndefinedPart == <<"undefined">>

\* cart.filter(item => item.name !== itemName); itemName is a part of a text
\* (a sequence of words) or UndefinedPart.

RECURSIVE FilterOutName(_, _)
FilterOutName(s, itemName) ==
  IF s = <<>> THEN <<>>
  ELSE IF <<Head(s).name>> # itemName
       THEN <<Head(s)>> \o FilterOutName(Tail(s), itemName)
       ELSE FilterOutName(Tail(s), itemName)

\* ------------------------------------------------------------- cart lines
\* { ...item, quantity, removedIngredients, specialRequest }
Line(item, q, removed, special) ==
  [_id |-> item._id, name |-> item.name, price |-> item.price,
   category |-> item.category, ingredients |-> item.ingredients,
   quantity |-> q, removedIngredients |-> removed, specialRequest |-> special]

\* The line addToCart appends for an item the cart does not hold.
NewLine(item) == Line(item, 1, <<>>, "")

\* A slip in the increment: the line gains 2.
IncrementedTwice(cartItem) ==
  [cartItem EXCEPT !.quantity = cartItem.quantity + 2]

\* The line addToCart puts in place of the one it found.
Incremented(cartItem) == [cartItem EXCEPT !.quantity = cartItem.quantity + 1]

\* A slip in addToCart: the existing line is not looked for.
AddToCartAppendOnly(c, item) == Append(c, NewLine(item))

\* addToCart's next cart.
AddToCartResult(c, item) ==
  IF \E i \in 1..Len(c) : c[i]._id = item._id
  THEN [i \in 1..Len(c) |->
          IF c[i]._id = item._id THEN Incremented(c[i]) ELSE c[i]]
  ELSE Append(c, NewLine(item))

\* The line addCustomizedToCart builds from the modal's state.
CustomizedItem(item, removed, special) == Line(item, 1, removed, special)

\* A slip in addCustomizedToCart: the replaced line's quantity is kept.
AddCustomizedKeepQuantity(c, customizedItem) ==
  LET existingIndex == FindIndex(c, customizedItem._id)
  IN  IF existingIndex >= 1
      THEN [index \in 1..Len(c) |->
              IF index = existingIndex
              THEN [customizedItem EXCEPT !.quantity = c[index].quantity]
              ELSE c[index]]
      ELSE Append(c, customizedItem)

\* addCustomizedToCart's next cart.
AddCustomizedResult(c, customizedItem) ==
  LET existingIndex == FindIndex(c, customizedItem._id)
  IN  IF existingIndex >= 1
      THEN [index \in 1..Len(c) |->
              IF index = existingIndex THEN customizedItem ELSE c[index]]
      ELSE Append(c, customizedItem)

\* removeFromCart's next cart.
RemoveFromCartResult(c, itemId) == FilterOutId(c, itemId)

\* A slip in updateQuantity's check: zero is let through.
QuantityRejectedBelowZero(newQuantity) == newQuantity < 0

\* updateQuantity's early return.
QuantityRejected(newQuantity) == newQuantity < 1

\* updateQuantity's next cart.
UpdateQuantityResult(c, itemId, newQuantity) ==
  IF QuantityRejected(newQuantity) THEN c
  ELSE [i \in 1..Len(c) |->
          IF c[i]._id = itemId THEN [c[i] EXCEPT !.quantity = newQuantity]
          ELSE c[i]]

\* A slip in the total: the quantity is forgotten.
LineAmountPriceOnly(item) == item.price

\* What one line adds to the total.
LineAmount(item) == item.price * item.quantity

\* cart.reduce((total, item) => total + item.price * item.quantity, 0)
RECURSIVE ReduceTotal(_, _, _)
ReduceTotal(c, i, total) ==
  IF i > Len(c) THEN total
  ELSE ReduceTotal(c, i + 1, total + LineAmount(c[i]))

calculateTotal(c) == ReduceTotal(c, 1, 0)

\* removedIngredients toggled by one checkbox.
ToggleResult(prev, ingredient) ==
  IF ingredient \in Range(prev)
  THEN SelectSeq(prev, LAMBDA i : i # ingredient)
  ELSE Append(prev, ingredient)

\* ------------------------------------------------------------------ texts
\* A string is kept as the parts that split("'") gives, each part a sequence
\* of words, so that includes() and split("'")[1] are computed, not assumed.
Text(phrase) == << <<phrase>> >>

EmptyText == << <<>> >>

\* A value the || operator skips: undefined or the empty string.
Falsy(text) == text = Undefined \/ text = EmptyText

\* text || fallback
OrElse(text, fallback) == IF Falsy(text) THEN fallback ELSE text

\* text.includes(word), for a word without an apostrophe
Includes(text, word) == \E i \in 1..Len(text) : word \in Range(text[i])

\* text.split("'")[1]
SecondPart(text) == IF Len(text) >= 2 THEN text[2] ELSE UndefinedPart

\* "<Item> 'name' is unavailable": the service's message for an item that
\* cannot be ordered.
UnavailableText(name) == << <<"Item">>, <<name>>, <<"is", "unavailable">> >>

\* The message field of an error body.
ServerMessages ==
  {Undefined, EmptyText, Text("Invalid quantity")}
    \cup {UnavailableText(n) : n \in ItemNames}

\* --------------------------------------------------------- notifications
NoToast == [kind |-> "none", text |-> EmptyText, button |-> FALSE]

SuccessToast(text) == [kind |-> "success", text |-> text, button |-> FALSE]

ErrorToast(text) == [kind |-> "error", text |-> text, button |-> FALSE]

\* The error toast that carries the "Remove unavailable items" button.
OfferToast(text) == [kind |-> "error", text |-> text, button |-> TRUE]

\* ------------------------------------------------------------ the router
MenuPath == <<"menu">>

LoginPath == <<"login">>

\* `/orders/${response.data.orderId}`
OrderPath(orderId) == <<"orders", orderId>>

Static(s) == [dynamic |-> FALSE, s |-> s]

Param(s) == [dynamic |-> TRUE, s |-> s]

\* The <Routes> of App.
Routes ==
  << [path |-> <<>>, element |-> "Home"],
     [path |-> <<Static("menu")>>, element |-> "Menu"],
     [path |-> <<Static("orders")>>, element |-> "OrderHistory"],
     [path |-> <<Static("feedback"), Param("orderId")>>,
      element |-> "FeedbackForm"],
     [path |-> <<Static("chef-dashboard")>>, element |-> "ChefDashboard"],
     [path |-> <<Static("login")>>, element |-> "Login"],
     [path |-> <<Static("register")>>, element |-> "Register"] >>

\* A route path matches a location when they have the same number of
\* segments and every static segment is equal (no route ends in a splat).
PathMatches(path, location) ==
  /\ Len(path) = Len(location)
  /\ \A i \in 1..Len(path) : path[i].dynamic \/ path[i].s = location[i]

\* The element the router renders at a location; "none" when no route
\* matches (the page stays blank).
RouteElement(location) ==
  IF \E i \in 1..Len(Routes) : PathMatches(Routes[i].path, location)
  THEN Routes[CHOOSE i \in 1..Len(Routes) :
                PathMatches(Routes[i].path, location)].element
  ELSE "none"

\* ------------------------------------------------------------ the order
\* One entry of orderData.items.
OrderItem(item) ==
  [menuItem |-> item._id, quantity |-> item.quantity, price |-> item.price,
   removedIngredients |-> item.removedIngredients,
   specialRequest |-> item.specialRequest]

\* The body of POST /orders, built from the cart placeOrder closed over.
OrderData(c) ==
  [items |-> [i \in 1..Len(c) |-> OrderItem(c[i])],
   totalAmount |-> calculateTotal(c)]

\* How api.post("/orders") settles.
NoResult ==
  [settled |-> "pending", hasResponse |-> FALSE, status |-> 0,
   success |-> FALSE, orderId |-> "", message |-> Undefined]

\* A 2xx response: the promise resolves with response.data.
Resolved(success, orderId, message) ==
  [settled |-> "resolved", hasResponse |-> TRUE, status |-> 200,
   success |-> success, orderId |-> orderId, message |-> message]

\* A non-2xx response: the promise rejects with error.response.
Rejected(status, message) ==
  [settled |-> "rejected", hasResponse |-> TRUE, status |-> status,
   success |-> FALSE, orderId |-> "", message |-> message]

\* No response at all: the promise rejects with error.message only.
NetworkError ==
  [settled |-> "rejected", hasResponse |-> FALSE, status |-> 0,
   success |-> FALSE, orderId |-> "", message |-> Text("Network Error")]

PostResults ==
  {Resolved(TRUE, o, Undefined) : o \in OrderIds}
    \cup {Resolved(FALSE, "", m) : m \in {Undefined, Text("Kitchen closed")}}
    \cup {Rejected(400, m) : m \in ServerMessages}
    \cup {Rejected(401, Undefined), Rejected(404, Undefined)}
    \cup {Rejected(500, m) : m \in {Undefined, Text("Server error")}}
    \cup {NetworkError}

\* [...new Set(response.data.map((item) => item.category))]
RECURSIVE UniqueCategories(_, _)
UniqueCategories(items, seen) ==
  IF items = <<>> THEN seen
  ELSE UniqueCategories(Tail(items),
         IF Head(items).category \in Range(seen) THEN seen
         ELSE Append(seen, Head(items).category))

\* ------------------------------------------------------------------ state
VARIABLES
  route,               \* the router's location, as path segments
  isAuthenticated,     \* useAuth().isAuthenticated
  token,               \* localStorage's 'token'
  menuItems,           \* Menu's state hooks ...
  categories,
  cart,
  isLoading,
  isPlacingOrder,
  customizingItem,     \* <<>> for null, <<item>> otherwise
  specialRequest,
  removedIngredients,
  calls,               \* placeOrder invocations suspended at an await
  offers,              \* "Remove unavailable items" buttons on screen
  inFlightEvents,      \* user events handled since calls or offers exist
  toast,               \* the notification raised by the last step
  unhandled,           \* the rejection the last step left unhandled
  event                \* the handler that ran in the last step, its input

vars ==
  << route, isAuthenticated, token, menuItems, categories, cart, isLoading,
     isPlacingOrder, customizingItem, specialRequest, removedIngredients,
     calls, offers, inFlightEvents, toast, unhandled, event >>

NoToken == "null"

Ev(h, id, n, result) == [h |-> h, id |-> id, n |-> n, result |-> result]

\* A placeOrder invocation suspended at the await of api.post: the cart it
\* closed over, the request body and bearer token it sent, the requests it
\* has issued and the one it waits for.
Call(c, bearer) ==
  [cart |-> c, orderData |-> OrderData(c), authorization |-> bearer,
   sent |-> <<"POST /orders">>, awaiting |-> "POST /orders"]

\* The same invocation at the await of the menu refetch of the 404 branch.
Refetching(call) ==
  [call EXCEPT !.sent = Append(call.sent, "GET /menu"),
               !.awaiting = "GET /menu"]

\* Something outlives the handler that started it.
Busy == calls # <<>> \/ offers # {}

\* The bound on user events leaves room for one more.
WithinBounds == Busy => inFlightEvents < MaxInFlightEvents

\* The page shows the menu and the cart: Menu is the element of /menu, and
\* it renders "Loading menu..." alone while isLoading.
MenuShown == route = MenuPath /\ ~isLoading

\* The customization modal is a fixed full-screen overlay above the page:
\* while it is open the buttons of the page cannot be clicked.  (With this
\* guard dropped, so that the buttons under the overlay can be reached from
\* the keyboard, the properties below hold as well at the bounds above.)
ModalClosed == customizingItem = <<>>

\* The new event count after a user event that leaves calls and offers as
\* they are.
Counted == inFlightEvents' = IF Busy THEN inFlightEvents + 1 ELSE 0

\* The new event count after a step that is not a user event.
Carried(nextCalls, nextOffers) ==
  inFlightEvents' =
    IF nextCalls # <<>> \/ nextOffers # {} THEN inFlightEvents ELSE 0

\* useState initial values, and the mount effect's GET /menu outstanding.
Init ==
  /\ route = MenuPath
  /\ isAuthenticated \in BOOLEAN
  /\ token = IF isAuthenticated THEN "jwt" ELSE NoToken
  /\ menuItems = <<>>
  /\ categories = <<>>
  /\ cart = <<>>
  /\ isLoading = TRUE
  /\ isPlacingOrder = FALSE
  /\ customizingItem = <<>>
  /\ specialRequest = ""
  /\ removedIngredients = <<>>
  /\ calls = <<>>
  /\ offers = {}
  /\ inFlightEvents = 0
  /\ toast = NoToast
  /\ unhandled = "none"
  /\ event = Ev("mount", "", 0, NoResult)

\* fetchMenu after its await: the response, or the catch.
menuFetched ==
  /\ route = MenuPath
  /\ isLoading
  /\ \/ \E data \in ServerMenus :
          /\ menuItems' = data
          /\ categories' = UniqueCategories(data, <<>>)
          /\ toast' = NoToast
          /\ event' = Ev("fetchMenu", "ok", 0, NoResult)
     \/ /\ UNCHANGED << menuItems, categories >>
        /\ toast' = ErrorToast(Text("Failed to load menu items"))
        /\ event' = Ev("fetchMenu", "failed", 0, NoResult)
  /\ isLoading' = FALSE
  /\ unhandled' = "none"
  /\ UNCHANGED << route, isAuthenticated, token, cart, isPlacingOrder,
                  customizingItem, specialRequest, removedIngredients,
                  calls, offers, inFlightEvents >>

addToCart(item) ==
  /\ MenuShown
  /\ ModalClosed
  /\ WithinBounds
  /\ \A i \in 1..Len(cart) :
       cart[i]._id = item._id => cart[i].quantity < MaxQty
  /\ cart' = AddToCartResult(cart, item)
  /\ toast' = SuccessToast(<< <<"Added", item.name, "to cart">> >>)
  /\ unhandled' = "none"
  /\ event' = Ev("addToCart", item._id, 0, NoResult)
  /\ Counted
  /\ UNCHANGED << route, isAuthenticated, token, menuItems, categories,
                  isLoading, isPlacingOrder, customizingItem, specialRequest,
                  removedIngredients, calls, offers >>

\* The Customize button of a menu card.
openCustomize(item) ==
  /\ MenuShown
  /\ ModalClosed
  /\ WithinBounds
  /\ customizingItem' = <<item>>
  /\ removedIngredients' = <<>>
  /\ specialRequest' = ""
  /\ toast' = NoToast
  /\ unhandled' = "none"
  /\ event' = Ev("openCustomize", item._id, 0, NoResult)
  /\ Counted
  /\ UNCHANGED << route, isAuthenticated, token, menuItems, categories, cart,
                  isLoading, isPlacingOrder, calls, offers >>

\* The modal's textarea.
typeSpecialRequest(text) ==
  /\ MenuShown
  /\ WithinBounds
  /\ customizingItem # <<>>
  /\ text # specialRequest
  /\ specialRequest' = text
  /\ toast' = NoToast
  /\ unhandled' = "none"
  /\ event' = Ev("typeSpecialRequest", text, 0, NoResult)
  /\ Counted
  /\ UNCHANGED << route, isAuthenticated, token, menuItems, categories, cart,
                  isLoading, isPlacingOrder, customizingItem,
                  removedIngredients, calls, offers >>

toggleIngredient(ingredient) ==
  /\ MenuShown
  /\ WithinBounds
  /\ customizingItem # <<>>
  /\ ingredient \in Range(customizingItem[1].ingredients)
  /\ removedIngredients' = ToggleResult(removedIngredients, ingredient)
  /\ toast' = NoToast
  /\ unhandled' = "none"
  /\ event' = Ev("toggleIngredient", ingredient, 0, NoResult)
  /\ Counted
  /\ UNCHANGED << route, isAuthenticated, token, menuItems, categories, cart,
                  isLoading, isPlacingOrder, customizingItem, specialRequest,
                  calls, offers >>

\* The modal's Cancel button.
cancelCustomize ==
  /\ MenuShown
  /\ WithinBounds
  /\ customizingItem # <<>>
  /\ customizingItem' = <<>>
  /\ removedIngredients' = <<>>
  /\ specialRequest' = ""
  /\ toast' = NoToast
  /\ unhandled' = "none"
  /\ event' = Ev("cancelCustomize", "", 0, NoResult)
  /\ Counted
  /\ UNCHANGED << route, isAuthenticated, token, menuItems, categories, cart,
                  isLoading, isPlacingOrder, calls, offers >>

addCustomizedToCart ==
  /\ MenuShown
  /\ WithinBounds
  /\ customizingItem # <<>>
  /\ cart' = AddCustomizedResult(cart,
               CustomizedItem(customizingItem[1], removedIngredients,
                              specialRequest))
  /\ customizingItem' = <<>>
  /\ removedIngredients' = <<>>
  /\ specialRequest' = ""
  /\ toast' = SuccessToast(
                << <<"Added customized", customizingItem[1].name,
                     "to cart">> >>)
  /\ unhandled' = "none"
  /\ event' = Ev("addCustomizedToCart", customizingItem[1]._id, 0, NoResult)
  /\ Counted
  /\ UNCHANGED << route, isAuthenticated, token, menuItems, categories,
                  isLoading, isPlacingOrder, calls, offers >>

removeFromCart(itemId) ==
  /\ MenuShown
  /\ ModalClosed
  /\ WithinBounds
  /\ cart' = RemoveFromCartResult(cart, itemId)
  /\ toast' = NoToast
  /\ unhandled' = "none"
  /\ event' = Ev("removeFromCart", itemId, 0, NoResult)
  /\ Counted
  /\ UNCHANGED << route, isAuthenticated, token, menuItems, categories,
                  isLoading, isPlacingOrder, customizingItem, specialRequest,
                  removedIngredients, calls, offers >>

updateQuantity(itemId, newQuantity) ==
  /\ MenuShown
  /\ ModalClosed
  /\ WithinBounds
  /\ cart' = UpdateQuantityResult(cart, itemId, newQuantity)
  /\ toast' = NoToast
  /\ unhandled' = "none"
  /\ event' = Ev("updateQuantity", itemId, newQuantity, NoResult)
  /\ Counted
  /\ UNCHANGED << route, isAuthenticated, token, menuItems, categories,
                  isLoading, isPlacingOrder, customizingItem, specialRequest,
                  removedIngredients, calls, offers >>

\* ------------------------------------------------------------ placeOrder
\* A slip in the button: it is never disabled.
PlaceOrderNeverDisabled == FALSE

\* The Place Order button is disabled while an order is being placed.
PlaceOrderDisabled == isPlacingOrder

\* A slip in placeOrder: the empty cart is not checked for.
CartNeverEmpty(c) == FALSE

\* placeOrder's check of the cart it closed over.
CartIsEmpty(c) == Len(c) = 0

\* What the code after the await does, as the effects of one step.
Effects(t) ==
  [toast |-> t, clearCart |-> FALSE, navigate |-> FALSE, to |-> <<>>,
   removeToken |-> FALSE, refetchMenu |-> FALSE, throws |-> "none"]

\* The try block after api.post resolved with a success body.
OrderPlaced(orderId) ==
  [Effects(SuccessToast(Text("Order placed successfully!")))
     EXCEPT !.clearCart = TRUE, !.navigate = TRUE, !.to = OrderPath(orderId)]

\* The catch block's branch for status 400.  data.message.includes(...)
\* is a TypeError when the body has no message.
Caught400(message) ==
  IF message = Undefined
  THEN [Effects(NoToast) EXCEPT !.throws = "TypeError"]
  ELSE IF Includes(message, "unavailable")
       THEN Effects(OfferToast(message))
       ELSE Effects(ErrorToast(OrElse(message, Text("Invalid order data"))))

\* A slip in the 401 branch: the token is left in storage.
Caught401KeepToken ==
  [Effects(ErrorToast(Text("Session expired. Please login again")))
     EXCEPT !.navigate = TRUE, !.to = LoginPath]

\* The catch block's branch for status 401.
Caught401 ==
  [Effects(ErrorToast(Text("Session expired. Please login again")))
     EXCEPT !.removeToken = TRUE, !.navigate = TRUE, !.to = LoginPath]

\* The catch block's branch for status 404, up to its await.
Caught404 ==
  [Effects(ErrorToast(Text("Menu item not found - please refresh the menu")))
     EXCEPT !.refetchMenu = TRUE]

\* The catch block, for an error with a response (error.response.data's
\* message in `message`) or without one (error.message in `message`).
Caught(hasResponse, status, message) ==
  IF hasResponse
  THEN IF status = 400 THEN Caught400(message)
       ELSE IF status = 401 THEN Caught401
       ELSE IF status = 404 THEN Caught404
       ELSE Effects(ErrorToast(OrElse(message, Text("Failed to place order"))))
  ELSE Effects(ErrorToast(OrElse(message, Text("Failed to place order"))))

\* placeOrder from the await of api.post to its next await or its end.
AfterPost(r) ==
  IF r.settled = "resolved"
  THEN IF r.success
       THEN OrderPlaced(r.orderId)
       ELSE \* throw new Error(response.data.message || "Failed to place order")
            Caught(FALSE, 0, OrElse(r.message, Text("Failed to place order")))
  ELSE Caught(r.hasResponse, r.status, r.message)

RemoveAt(s, k) == [i \in 1..(Len(s) - 1) |-> IF i < k THEN s[i] ELSE s[i + 1]]

placeOrder ==
  /\ MenuShown
  /\ ModalClosed
  /\ WithinBounds
  /\ ~PlaceOrderDisabled
  /\ IF ~isAuthenticated
     THEN /\ toast' = ErrorToast(Text("Please login to place an order"))
          /\ route' = LoginPath
          /\ offers' = {}
          /\ Carried(calls, {})
          /\ UNCHANGED << isPlacingOrder, calls >>
     ELSE IF CartIsEmpty(cart)
     THEN /\ toast' = ErrorToast(Text("Your cart is empty"))
          /\ Counted
          /\ UNCHANGED << route, isPlacingOrder, calls, offers >>
     ELSE /\ isPlacingOrder' = TRUE
          /\ calls' = Append(calls, Call(cart, token))
          /\ toast' = NoToast
          /\ Counted
          /\ UNCHANGED << route, offers >>
  /\ unhandled' = "none"
  /\ event' = Ev("placeOrder", "", 0, NoResult)
  /\ UNCHANGED << isAuthenticated, token, menuItems, categories, cart,
                  isLoading, customizingItem, specialRequest,
                  removedIngredients >>

\* api.post settles with r and invocation k runs on, to the end of
\* placeOrder (finally included) or to the await of the menu refetch.
postSettled(k, r) ==
  /\ calls[k].awaiting = "POST /orders"
  /\ LET fx == AfterPost(r)
         left == IF fx.refetchMenu
                 THEN [calls EXCEPT ![k] = Refetching(calls[k])]
                 ELSE RemoveAt(calls, k)
         shown == IF fx.navigate THEN {}
                  ELSE IF fx.toast.button
                       THEN offers \cup {[cart |-> calls[k].cart,
                                          message |-> r.message]}
                       ELSE offers
     IN  /\ cart' = IF fx.clearCart THEN <<>> ELSE cart
         /\ route' = IF fx.navigate THEN fx.to ELSE route
         /\ token' = IF fx.removeToken THEN NoToken ELSE token
         /\ calls' = left
         /\ isPlacingOrder' = IF fx.refetchMenu THEN isPlacingOrder ELSE FALSE
         /\ offers' = shown
         /\ toast' = fx.toast
         /\ unhandled' = fx.throws
         /\ Carried(left, shown)
  /\ event' = Ev("postSettled", "", k, r)
  /\ UNCHANGED << isAuthenticated, menuItems, categories, isLoading,
                  customizingItem, specialRequest, removedIngredients >>

\* The refetch of the 404 branch settles: setMenuItems, or the rejection
\* leaves the catch block; the finally block runs either way.
menuRefetched(k) ==
  /\ calls[k].awaiting = "GET /menu"
  /\ \/ \E data \in ServerMenus :
          /\ menuItems' = data
          /\ unhandled' = "none"
          /\ event' = Ev("menuRefetched", "ok", k, NoResult)
     \/ /\ UNCHANGED menuItems
        /\ unhandled' = "AxiosError"
        /\ event' = Ev("menuRefetched", "failed", k, NoResult)
  /\ calls' = RemoveAt(calls, k)
  /\ isPlacingOrder' = FALSE
  /\ toast' = NoToast
  /\ Carried(RemoveAt(calls, k), offers)
  /\ UNCHANGED << route, isAuthenticated, token, categories, cart, isLoading,
                  customizingItem, specialRequest, removedIngredients,
                  offers >>

\* The onClick of "Remove unavailable items" in the toast of offer o; the
\* event names the error whose message the button's closure holds.
removeUnavailable(o) ==
  /\ route = MenuPath
  /\ WithinBounds
  /\ LET itemName == SecondPart(o.message)
         newCart == FilterOutName(o.cart, itemName)
     IN  cart' = newCart
  /\ toast' = NoToast
  /\ unhandled' = "none"
  /\ event' = Ev("removeUnavailable", "", 0, Rejected(400, o.message))
  /\ Counted
  /\ UNCHANGED << route, isAuthenticated, token, menuItems, categories,
                  isLoading, isPlacingOrder, customizingItem, specialRequest,
                  removedIngredients, calls, offers >>

\* The toast of offer o leaves the screen after its duration.
offerExpired(o) ==
  /\ offers' = offers \ {o}
  /\ toast' = NoToast
  /\ unhandled' = "none"
  /\ event' = Ev("offerExpired", "", 0, NoResult)
  /\ Carried(calls, offers \ {o})
  /\ UNCHANGED << route, isAuthenticated, token, menuItems, categories, cart,
                  isLoading, isPlacingOrder, customizingItem, specialRequest,
                  removedIngredients, calls >>

\* The location becomes /menu again: the router renders a new Menu, with
\* the initial values of its state hooks and its mount effect running.
mountMenu ==
  /\ route # MenuPath
  /\ calls = <<>>
  /\ route' = MenuPath
  /\ menuItems' = <<>>
  /\ categories' = <<>>
  /\ cart' = <<>>
  /\ isLoading' = TRUE
  /\ isPlacingOrder' = FALSE
  /\ customizingItem' = <<>>
  /\ specialRequest' = ""
  /\ removedIngredients' = <<>>
  /\ offers' = {}
  /\ inFlightEvents' = 0
  /\ toast' = NoToast
  /\ unhandled' = "none"
  /\ event' = Ev("mount", "", 0, NoResult)
  /\ UNCHANGED << isAuthenticated, token, calls >>

Next ==
  \/ menuFetched
  \/ \E i \in 1..Len(menuItems) : addToCart(menuItems[i])
  \/ \E i \in 1..Len(menuItems) : openCustomize(menuItems[i])
  \/ \E text \in SpecialRequests : typeSpecialRequest(text)
  \/ \E ingredient \in {"onion"} : toggleIngredient(ingredient)
  \/ cancelCustomize
  \/ addCustomizedToCart
  \/ \E itemId \in ItemIds : removeFromCart(itemId)
  \/ \E itemId \in ItemIds, newQuantity \in 0..MaxQty :
       updateQuantity(itemId, newQuantity)
  \/ placeOrder
  \/ \E k \in 1..Len(calls), r \in PostResults : postSettled(k, r)
  \/ \E k \in 1..Len(calls) : menuRefetched(k)
  \/ \E o \in offers : removeUnavailable(o)
  \/ \E o \in offers : offerExpired(o)
  \/ mountMenu

Spec == Init /\ [][Next]_vars

\* ---------------------------------------------------------------- claims
\* The lines of c for item identity id.
LinesOf(c, id) == {i \in 1..Len(c) : c[i]._id = id}

\* Every line of c2 that is not for id is the line of c at the same place.
OthersUnchanged(c, c2, id) ==
  \A i \in 1..Len(c) : c[i]._id # id => (i <= Len(c2) /\ c2[i] = c[i])

\* C1: add(item) on a cart that holds a line for the item's _id adds 1 to
\* that line's quantity and adds no line; otherwise it appends one line
\* with quantity 1, no removed ingredients and an empty special request.
\* Every other line stays as it is.
C1_AddIncrementsOrAppends ==
  [][event'.h = "addToCart" =>
       LET id == event'.id
       IN  /\ OthersUnchanged(cart, cart', id)
           /\ IF LinesOf(cart, id) # {}
              THEN /\ Len(cart') = Len(cart)
                   /\ \A i \in LinesOf(cart, id) :
                        cart'[i] =
                          [cart[i] EXCEPT !.quantity = cart[i].quantity + 1]
              ELSE /\ Len(cart') = Len(cart) + 1
                   /\ cart'[Len(cart')]._id = id
                   /\ cart'[Len(cart')].quantity = 1
                   /\ cart'[Len(cart')].removedIngredients = <<>>
                   /\ cart'[Len(cart')].specialRequest = ""]_vars

\* add has just run on an item the cart held with quantity 1: the cart has
\* one line for it, with quantity 2, next to another line.
C1_Witness ==
  /\ event.h = "addToCart"
  /\ Len(cart) = 2
  /\ Cardinality(LinesOf(cart, event.id)) = 1
  /\ \A i \in LinesOf(cart, event.id) : cart[i].quantity = 2

\* C2: customize-and-add on a cart that holds a line for the item replaces
\* that line in place: the number of lines is the same, the line carries
\* the customization of the modal and quantity 1.  When the item is absent
\* one line with quantity 1 and the customization is appended.  Every other
\* line stays as it is.
C2_CustomizeReplacesOrAppends ==
  [][event'.h = "addCustomizedToCart" =>
       LET id == event'.id
           at == IF LinesOf(cart, id) # {} THEN LinesOf(cart, id)
                 ELSE {Len(cart) + 1}
       IN  /\ OthersUnchanged(cart, cart', id)
           /\ Len(cart') = IF LinesOf(cart, id) # {} THEN Len(cart)
                           ELSE Len(cart) + 1
           /\ Cardinality(LinesOf(cart', id)) = 1
           /\ \A i \in at :
                /\ cart'[i]._id = id
                /\ cart'[i].quantity = 1
                /\ cart'[i].removedIngredients = removedIngredients
                /\ cart'[i].specialRequest = specialRequest]_vars

\* customize-and-add has just replaced the first of two lines, with an
\* ingredient removed.
C2_Witness ==
  /\ event.h = "addCustomizedToCart"
  /\ Len(cart) = 2
  /\ cart[1]._id = event.id
  /\ cart[1].quantity = 1
  /\ cart[1].removedIngredients # <<>>
  /\ cart[2].quantity = 2

\* C3: update-quantity with a new quantity below 1 leaves the cart as it
\* is; with a new quantity of 1 or more it sets the quantity of the line
\* for the item and changes no other line, and nothing when no line matches.
C3_UpdateQuantity ==
  [][event'.h = "updateQuantity" =>
       LET id == event'.id
           n == event'.n
       IN  IF n < 1 THEN cart' = cart
           ELSE /\ Len(cart') = Len(cart)
                /\ OthersUnchanged(cart, cart', id)
                /\ \A i \in LinesOf(cart, id) :
                     cart'[i] = [cart[i] EXCEPT !.quantity = n]
                /\ LinesOf(cart, id) = {} => cart' = cart]_vars

\* update-quantity has just been given 0 for a line the cart holds.
C3_Witness ==
  /\ event.h = "updateQuantity"
  /\ event.n < 1
  /\ LinesOf(cart, event.id) # {}
  /\ Len(cart) = 2

\* The sum of price x quantity over the lines, from the last line back.
RECURSIVE SumOfLines(_)
SumOfLines(lines) ==
  IF lines = <<>> THEN 0
  ELSE SumOfLines(SubSeq(lines, 1, Len(lines) - 1))
         + lines[Len(lines)].price * lines[Len(lines)].quantity

\* C4: total() is the sum over the cart lines of price x quantity, 0 for
\* the empty cart, and the totalAmount of a submitted order is that sum
\* over the items of the same request.
C4_TotalIsSum ==
  /\ calculateTotal(cart) = SumOfLines(cart)
  /\ cart = <<>> => calculateTotal(cart) = 0
  /\ \A k \in 1..Len(calls) :
       calls[k].orderData.totalAmount = SumOfLines(calls[k].orderData.items)

\* An order of two items, one of them twice, is in flight.
C4_Witness ==
  /\ calls # <<>>
  /\ Len(calls[1].orderData.items) = 2
  /\ calls[1].orderData.items[1].quantity = 2
  /\ calls[1].orderData.totalAmount = 13

\* C5: submit-order with an empty cart or without authentication issues no
\* request, does not set the placing-order flag, leaves the cart as it is
\* and shows an error; without authentication it goes to the login view,
\* with an empty cart too.
C5_SubmitFailsLocally ==
  [][(event'.h = "placeOrder" /\ (cart = <<>> \/ ~isAuthenticated)) =>
       /\ calls' = calls
       /\ ~isPlacingOrder'
       /\ cart' = cart
       /\ toast'.kind = "error"
       /\ ~isAuthenticated => route' = LoginPath
       /\ isAuthenticated => route' = route]_vars

\* submit-order has just run for an authenticated user with an empty cart.
C5_Witness ==
  /\ event.h = "placeOrder"
  /\ isAuthenticated
  /\ cart = <<>>
  /\ calls = <<>>
  /\ toast = ErrorToast(Text("Your cart is empty"))

\* C6: when an order submission gets a 401 response the token is removed
\* from storage and the view goes to the login route; the cart is not
\* cleared and the placing-order flag ends false.
C6_SessionExpired ==
  [][(event'.h = "postSettled" /\ event'.result.hasResponse
        /\ event'.result.status = 401) =>
       /\ token' = NoToken
       /\ route' = LoginPath
       /\ cart' = cart
       /\ ~isPlacingOrder'
       /\ calls' = <<>>]_vars

\* A 401 has just been handled: the token is gone, the cart is not.
C6_Witness ==
  /\ event.h = "postSettled"
  /\ event.result.status = 401
  /\ token = NoToken
  /\ route = LoginPath
  /\ cart # <<>>

\* C7: when the POST /orders response reports success the cart is cleared
\* and the application goes to the order-detail path of the returned
\* orderId, a path the route table maps to a view; a body with success
\* false clears nothing and goes nowhere.
C7_SuccessShowsOrderView ==
  [][(event'.h = "postSettled" /\ event'.result.settled = "resolved") =>
       IF event'.result.success
       THEN /\ cart' = <<>>
            /\ route' = OrderPath(event'.result.orderId)
            /\ RouteElement(route') # "none"
       ELSE /\ cart' = cart
            /\ route' = route]_vars

\* A submission has failed: the POST was rejected, or it resolved with a
\* body whose success is false.
Failed(result) ==
  result.settled = "rejected" \/ (result.settled = "resolved" /\ ~result.success)

\* C8: every failed order submission ends with an error notification shown,
\* the cart as it was, the placing-order flag false and no uncaught error:
\* also when the error body has no message and when the menu refetch after
\* a 404 fails.
C8_NothingIsFatal ==
  [][/\ (event'.h = "postSettled" /\ Failed(event'.result)) =>
          /\ toast'.kind = "error"
          /\ cart' = cart
          /\ unhandled' = "none"
          /\ calls' = <<>> => ~isPlacingOrder'
     /\ event'.h = "menuRefetched" =>
          /\ cart' = cart
          /\ unhandled' = "none"
          /\ ~isPlacingOrder']_vars

\* C9 as stated: a submit-order action issues exactly one request, the
\* POST /orders, whatever the response; no second submission runs beside
\* it, and the placing-order flag is true exactly while that request is
\* outstanding.
C9_ExactlyOneRequest ==
  /\ Len(calls) <= 1
  /\ \A k \in 1..Len(calls) :
       /\ calls[k].sent = <<"POST /orders">>
       /\ calls[k].awaiting = "POST /orders"
  /\ isPlacingOrder <=> calls # <<>>

\* C9, amended: a submit-order action issues exactly one POST /orders and,
\* only when the response is a 404, one GET /menu after the POST has
\* completed; one request of the action is outstanding at a time, no second
\* submission runs beside it, and the placing-order flag is true exactly
\* while a request of the action is outstanding.
C9_OneOutstandingRequest ==
  /\ [](/\ Len(calls) <= 1
        /\ \A k \in 1..Len(calls) :
             /\ calls[k].sent \in {<<"POST /orders">>,
                                   <<"POST /orders", "GET /menu">>}
             /\ calls[k].awaiting = calls[k].sent[Len(calls[k].sent)]
        /\ isPlacingOrder <=> calls # <<>>)
  /\ [][/\ (\E k \in 1..Len(calls') : calls'[k].awaiting = "GET /menu") =>
             \/ \E k \in 1..Len(calls) : calls[k].awaiting = "GET /menu"
             \/ /\ event'.h = "postSettled"
                /\ event'.result.status = 404
        /\ (event'.h = "postSettled" /\ event'.result.status # 404) =>
             calls' = <<>>
        /\ event'.h = "menuRefetched" => calls' = <<>>]_vars

\* The POST was answered 404 and the action waits for the menu refetch,
\* the button still disabled.
C9_Witness ==
  /\ Len(calls) = 1
  /\ calls[1].sent = <<"POST /orders", "GET /menu">>
  /\ calls[1].awaiting = "GET /menu"
  /\ isPlacingOrder
  /\ event.result.status = 404

\* C10: every cart line has a quantity of 1 or more, and the cart holds at
\* most one line for an item identity.
C10_CartWellFormed ==
  /\ \A i \in 1..Len(cart) : cart[i].quantity \in Nat \ {0}
  /\ \A i, j \in 1..Len(cart) : cart[i]._id = cart[j]._id => i = j

\* "Remove unavailable items" has just run and left a line that was added
\* twice.
C10_Witness ==
  /\ event.h = "removeUnavailable"
  /\ Len(cart) = 1
  /\ cart[1].quantity = 2

\* The lines of c whose name is not the one named between the apostrophes
\* of an error message.
WithoutNamed(c, message) ==
  SelectSeq(c, LAMBDA line :
                 Len(message) < 2 \/ message[2] # <<line.name>>)

\* C11: "Remove unavailable items" removes from the cart as it is when the
\* button is activated the lines whose name is the item named in the error
\* message, and leaves every other line as it is, the lines added, removed
\* or given another quantity after the submission was started too.
C11_PruneCurrentCart ==
  [][event'.h = "removeUnavailable" =>
       cart' = WithoutNamed(cart, event'.result.message)]_vars

\* C12: a successful order placement clears only what was ordered: the lines
\* and quantities cleared from the cart on success are the items and
\* quantities carried in the POST /orders request of that submission,
\* whatever cart actions ran while the request was outstanding.
C12_ClearsOnlyOrderedLines ==
  [][(event'.h = "postSettled" /\ event'.result.settled = "resolved"
        /\ event'.result.success) =>
       /\ cart' = <<>>
       /\ Len(cart) = Len(calls[event'.n].orderData.items)
       /\ \A i \in 1..Len(cart) :
            /\ cart[i]._id = calls[event'.n].orderData.items[i].menuItem
            /\ cart[i].quantity = calls[event'.n].orderData.items[i].quantity]_vars

====
